---- MODULE Spec2Model ----
(***************************************************************************)
(* The three sample scripts of scripts/script_runner/examples/             *)
(* sample_scripts: example_task.py (task simulator), demo_output.py (demo  *)
(* output generator) and test_colors.py (color probe).                     *)
(*                                                                         *)
(* Each script is one sequential process.  pc names the source line of     *)
(* the statement that runs next ("task:46" is example_task.py line 46).    *)
(* Everything a script does to the outside world is appended to trace:     *)
(* print, flush and sleep events, in program order.  The two output        *)
(* streams are buffered as CPython buffers them: a line-buffered stream    *)
(* hands every line to the reader at once, a block-buffered stream (a      *)
(* pipe) holds it in buf until the stream is flushed or the process ends.  *)
(* The scripts write far less than one buffer (8192 bytes) between two     *)
(* flushes, so a full buffer never forces a write.  observed is what the   *)
(* reader of both streams has received, in arrival order.                  *)
(*                                                                         *)
(* Time is counted in milliseconds; a sleep advances the clock by exactly  *)
(* its argument.  Exceptions are raised by the environment: an interrupt   *)
(* (KeyboardInterrupt) or a fault (an Exception such as a write error) can *)
(* strike before any statement.                                            *)
(***************************************************************************)
EXTENDS Integers, Sequences, FiniteSets

VARIABLES
    script,     \* which script this process runs: "task", "demo", "colors"
    pc,         \* the statement that runs next, or "exit"
    t,          \* task simulator: index into tasks of the running task
    i,          \* the running loop's counter
    now,        \* the clock, in milliseconds
    warned,     \* how many random draws fell under the warning threshold
    raised,     \* the exceptions raised so far, in order
    status,     \* how the process ended: [kind, code]
    pid,        \* os.getpid() of this process
    mode,       \* buffering of each stream: "line" or "block"
    buf,        \* per stream, the lines written and not yet handed over
    observed,   \* the lines the reader has received, in arrival order
    trace,      \* every print, flush and sleep, in program order
    run,        \* 1 for the first run, 2 for the re-run
    prev        \* the (canonical) output of the first run, once it has ended

vars == <<script, pc, t, i, now, warned, raised, status, pid, mode, buf,
          observed, trace, run, prev>>

\* What no statement of a script changes.
env == <<script, pid, mode, run, prev>>

(***************************************************************************)
(* Bounds of the model.                                                    *)
(***************************************************************************)
\* At most this many random draws of one run fall under the warning threshold.
MaxWarnings == 2

\* The process ids the operating system hands out.
Pids == {4711, 4712}

\* The buffering a stream can have.
BufferModes == {"line", "block"}

\* Every buffering of the two streams.
AllModes == [{"stdout", "stderr"} -> BufferModes]

\* The scripts that write to stdout alone are run with each buffering of
\* stdout; stderr, which they never touch, is line-buffered.
StdoutModes == {m \in AllModes : m["stderr"] = "line"}

(***************************************************************************)
(* Events.                                                                 *)
(***************************************************************************)
\* A printed line: the stream, the log timestamp in seconds (0 for a plain
\* print), the log level ("" for a plain print), the literal pieces of the
\* text and the (up to two) numbers formatted into it.
Line(ch, ts, lvl, toks, n1, n2) ==
    [k |-> "print", ch |-> ch, ts |-> ts, lvl |-> lvl, toks |-> toks,
     n1 |-> n1, n2 |-> n2]

FlushEv(ch) ==
    [k |-> "flush", ch |-> ch, ts |-> 0, lvl |-> "", toks |-> <<>>,
     n1 |-> 0, n2 |-> 0]

SleepEv(ms) ==
    [k |-> "sleep", ch |-> "", ts |-> 0, lvl |-> "", toks |-> <<>>,
     n1 |-> ms, n2 |-> 0]

\* print(..., file=ch): the line enters the stream; a line-buffered stream
\* hands it over at once.
PrintTo(ch, ev) ==
    /\ trace' = Append(trace, ev)
    /\ IF mode[ch] = "line"
         THEN /\ observed' = observed \o buf[ch] \o <<ev>>
              /\ buf' = [buf EXCEPT ![ch] = <<>>]
         ELSE /\ buf' = [buf EXCEPT ![ch] = Append(@, ev)]
              /\ UNCHANGED observed

\* ch.flush(): everything the stream holds is handed over.
Flush(ch) ==
    /\ trace' = Append(trace, FlushEv(ch))
    /\ observed' = observed \o buf[ch]
    /\ buf' = [buf EXCEPT ![ch] = <<>>]

\* time.sleep(ms / 1000)
Sleep(ms) ==
    /\ trace' = Append(trace, SleepEv(ms))
    /\ now' = now + ms

\* Interpreter shutdown flushes stdout, then stderr.
AtExit(st) ==
    /\ pc' = "exit"
    /\ status' = st
    /\ observed' = observed \o buf["stdout"] \o buf["stderr"]
    /\ buf' = [ch \in {"stdout", "stderr"} |-> <<>>]

Exited(code) == [kind |-> "exited", code |-> code]
Signaled(sig) == [kind |-> "signaled", code |-> sig]
Running == [kind |-> "running", code |-> 0]

KeyboardInterrupt == [type |-> "KeyboardInterrupt", text |-> ""]
BrokenPipe == [type |-> "Exception", text |-> "[Errno 32] Broken pipe"]

\* What the environment can raise in a script.
Raisable == {KeyboardInterrupt, BrokenPipe}

\* The record of exception e raised before the statement at line.
RaisedAt(e, line) == [type |-> e.type, text |-> e.text, at |-> line]

\* An interpreter that swallows the exception and ends with status 0.
UncaughtStatusZero(e) == {Exited(0)}

\* How the interpreter ends on an exception nobody caught: a traceback and
\* exit status 1; for KeyboardInterrupt, CPython from 3.8 on kills itself
\* with SIGINT (signal 2) instead, older ones exit with status 1.
UncaughtStatus(e) ==
    IF e.type = "KeyboardInterrupt"
      THEN {Signaled(2), Exited(1)}
      ELSE {Exited(1)}

(***************************************************************************)
(* example_task.py                                                         *)
(***************************************************************************)
tasks ==
    << [name |-> "Data Processing", duration |-> 3],
       [name |-> "File Analysis", duration |-> 2],
       [name |-> "Report Generation", duration |-> 4] >>

steps == 10

\* random.random() < 0.1, the draw counted in hundredths.
WarnThreshold == 10

\* The values random.random() takes, in hundredths.
RandomDraws == {0, 9, 10, 99}

\* datetime.now().strftime("%Y-%m-%d %H:%M:%S"): the clock cut to seconds.
Timestamp(ms) == ms \div 1000

\* duration / steps, seconds as milliseconds.
StepDuration(duration) == (duration * 1000) \div steps

\* f"{(i / steps) * 100:.1f}": the percentage rounded to one decimal,
\* as a count of tenths (300 is "30.0").
ProgressTenths(n) == (2 * n * 1000 + steps) \div (2 * steps)

\* A loop over range(steps): the 100.0% line is lost.
ProgressRangeShort == 0 .. steps - 1

\* range(steps + 1)
ProgressRange == 0 .. steps

\* if i < steps:
SleepsAfter(n) == n < steps

\* if random.random() < 0.1:
Warns(r) == r < WarnThreshold

\* The step printed as the loop index i, which counts from 0.
MinorIssueStepFromZero(n) == n

\* f"Minor issue in {task_name} (step {i+1})"
MinorIssueStep(n) == n + 1

\* log_message(message, level): one timestamped line, flushed.
LogMessage(toks, n1, lvl) ==
    LET ev == Line("stdout", Timestamp(now), lvl, toks, n1, 0)
    IN  /\ trace' = trace \o <<ev, FlushEv("stdout")>>
        /\ observed' = observed \o buf["stdout"] \o <<ev>>
        /\ buf' = [buf EXCEPT !["stdout"] = <<>>]

TaskStarting ==
    /\ pc = "task:46"
    /\ LogMessage(<<"Python example script starting">>, 0, "INFO")
    /\ pc' = "task:47"
    /\ UNCHANGED <<env, t, i, now, warned, raised, status>>

TaskVersion ==
    /\ pc = "task:47"
    /\ LogMessage(<<"Python version: ", "sys.version">>, 0, "INFO")
    /\ pc' = "task:25"
    /\ t' = 1
    /\ UNCHANGED <<env, i, now, warned, raised, status>>

\* simulate_work: log_message(f"Starting {task_name}")
WorkStarting ==
    /\ pc = "task:25"
    /\ LogMessage(<<"Starting ", tasks[t].name>>, 0, "INFO")
    /\ pc' = "task:32"
    /\ i' = 0
    /\ UNCHANGED <<env, t, now, warned, raised, status>>

\* simulate_work: the progress line of iteration i
WorkProgress ==
    /\ pc = "task:32"
    /\ i \in ProgressRange
    /\ LogMessage(<<tasks[t].name, " progress: ", "%">>, ProgressTenths(i), "INFO")
    /\ pc' = IF SleepsAfter(i) THEN "task:35"
             ELSE IF i + 1 \in ProgressRange THEN "task:32" ELSE "task:41"
    /\ i' = IF SleepsAfter(i) THEN i ELSE i + 1
    /\ UNCHANGED <<env, t, now, warned, raised, status>>

\* simulate_work: time.sleep(step_duration)
WorkSleep ==
    /\ pc = "task:35"
    /\ Sleep(StepDuration(tasks[t].duration))
    /\ pc' = "task:38"
    /\ UNCHANGED <<env, t, i, warned, raised, status, buf, observed>>

\* simulate_work: the random check; with no warning the loop goes on
WorkRandom ==
    /\ pc = "task:38"
    /\ \E r \in RandomDraws :
        /\ Warns(r) => warned < MaxWarnings
        /\ IF Warns(r)
             THEN /\ pc' = "task:39"
                  /\ warned' = warned + 1
                  /\ i' = i
             ELSE /\ pc' = IF i + 1 \in ProgressRange THEN "task:32" ELSE "task:41"
                  /\ warned' = warned
                  /\ i' = i + 1
    /\ UNCHANGED <<env, t, now, raised, status, buf, observed, trace>>

\* simulate_work: the warning line, then the next iteration
WorkWarning ==
    /\ pc = "task:39"
    /\ LogMessage(<<"Minor issue in ", tasks[t].name, " (step ", ")">>,
                  MinorIssueStep(i), "WARNING")
    /\ pc' = IF i + 1 \in ProgressRange THEN "task:32" ELSE "task:41"
    /\ i' = i + 1
    /\ UNCHANGED <<env, t, now, warned, raised, status>>

\* simulate_work: log_message(f"Completed {task_name}")
WorkCompleted ==
    /\ pc = "task:41"
    /\ LogMessage(<<"Completed ", tasks[t].name>>, 0, "INFO")
    /\ pc' = "task:60"
    /\ UNCHANGED <<env, t, i, now, warned, raised, status>>

\* main: time.sleep(0.5), then the next task or the summary
TaskPause ==
    /\ pc = "task:60"
    /\ Sleep(500)
    /\ pc' = IF t < Len(tasks) THEN "task:25" ELSE "task:63"
    /\ t' = t + 1
    /\ UNCHANGED <<env, i, warned, raised, status, buf, observed>>

TaskAllCompleted ==
    /\ pc = "task:63"
    /\ LogMessage(<<"All tasks completed successfully">>, 0, "INFO")
    /\ pc' = "task:64"
    /\ UNCHANGED <<env, t, i, now, warned, raised, status>>

TaskSummary ==
    /\ pc = "task:64"
    /\ LogMessage(<<"Summary: 3 tasks executed, 0 errors">>, 0, "INFO")
    /\ pc' = "task:66"
    /\ UNCHANGED <<env, t, i, now, warned, raised, status>>

\* main: return 0, and sys.exit(exit_code)
TaskReturn0 ==
    /\ pc = "task:66"
    /\ AtExit(Exited(0))
    /\ UNCHANGED <<env, t, i, now, warned, raised, trace>>

\* The statements of main's try block (lines 46-66), simulate_work included.
TaskTryBody ==
    {"task:46", "task:47", "task:25", "task:32", "task:35", "task:38", "task:39",
     "task:41", "task:60", "task:63", "task:64", "task:66"}

\* An exception raised inside the try block is caught by one of the
\* two handlers.
TaskRaise ==
    /\ pc \in TaskTryBody
    /\ \E e \in Raisable :
        /\ raised' = Append(raised, RaisedAt(e, pc))
        /\ pc' = IF e.type = "KeyboardInterrupt" THEN "task:69" ELSE "task:73"
    /\ UNCHANGED <<env, t, i, now, warned, status, buf, observed, trace>>

\* except KeyboardInterrupt: log_message("Script interrupted by user", "WARNING")
TaskInterrupted ==
    /\ pc = "task:69"
    /\ LogMessage(<<"Script interrupted by user">>, 0, "WARNING")
    /\ pc' = "task:70"
    /\ UNCHANGED <<env, t, i, now, warned, raised, status>>

\* return 130, and sys.exit(exit_code)
TaskReturn130 ==
    /\ pc = "task:70"
    /\ AtExit(Exited(130))
    /\ UNCHANGED <<env, t, i, now, warned, raised, trace>>

\* except Exception as e: log_message(f"Unexpected error: {e}", "ERROR")
TaskUnexpected ==
    /\ pc = "task:73"
    /\ LogMessage(<<"Unexpected error: ", raised[Len(raised)].text>>, 0, "ERROR")
    /\ pc' = "task:74"
    /\ UNCHANGED <<env, t, i, now, warned, raised, status>>

\* return 1, and sys.exit(exit_code)
TaskReturn1 ==
    /\ pc = "task:74"
    /\ AtExit(Exited(1))
    /\ UNCHANGED <<env, t, i, now, warned, raised, trace>>

\* The statements of main's two except clauses (lines 68-74).
TaskHandlers == {"task:69", "task:70", "task:73", "task:74"}

\* An exception raised inside an except clause is caught by nothing: it
\* leaves main, line 78 never runs and the interpreter ends the process.
TaskHandlerRaise ==
    /\ pc \in TaskHandlers
    /\ \E e \in Raisable :
        /\ raised' = Append(raised, RaisedAt(e, pc))
        /\ \E st \in UncaughtStatus(e) : AtExit(st)
    /\ UNCHANGED <<env, t, i, now, warned, trace>>

\* A run of the task simulator that nothing interrupts.
TaskSteps ==
    \/ TaskStarting \/ TaskVersion
    \/ WorkStarting \/ WorkProgress \/ WorkSleep \/ WorkRandom \/ WorkWarning
    \/ WorkCompleted
    \/ TaskPause \/ TaskAllCompleted \/ TaskSummary \/ TaskReturn0

TaskNext ==
    \/ TaskSteps
    \/ TaskRaise \/ TaskInterrupted \/ TaskReturn130
    \/ TaskUnexpected \/ TaskReturn1 \/ TaskHandlerRaise

(***************************************************************************)
(* demo_output.py                                                          *)
(***************************************************************************)
\* A print that stamps the line with the time of day.
PlainStamped(ch, toks) == Line(ch, now \div 1000, "", toks, 0, 0)

\* A plain print(text) to a stream.
Plain(ch, toks) == Line(ch, 0, "", toks, 0, 0)

\* A loop over range(1, 10): the 100% line is lost.
DemoProgressRangeShort == 1 .. 9

\* range(1, 11)
DemoProgressRange == 1 .. 10

\* f"Progress: {i}/10 ({i*10}%)"
DemoProgressLine(n) ==
    Line("stdout", 0, "", <<"Progress: ", "/10 (", "%)">>, n, n * 10)

\* range(20)
DemoLineRange == 0 .. 19

\* f"Line {i+1}: Lorem ipsum dolor sit amet, consectetur adipiscing elit."
DemoLoremLine(n) ==
    Line("stdout", 0, "",
         <<"Line ", ": Lorem ipsum dolor sit amet, consectetur adipiscing elit.">>,
         n + 1, 0)

\* The test written for a 1-based index: pauses after lines 1, 6, 11, 16.
DemoPausesAfterFirst(n) == n % 5 = 0

\* if i % 5 == 4:
DemoPausesAfter(n) == n % 5 = 4

\* f"PID: {os.getpid()}"
DemoPidLine(p) == Line("stdout", 0, "", <<"PID: ">>, p, 0)

\* The prints of main that stand alone: the line each is on, the line that
\* runs next, and what is printed.
DemoPrints ==
    { [at |-> "demo:12", to |-> "demo:13",
       ev |-> Plain("stdout", <<"=== Script Runner Demo ===">>)],
      [at |-> "demo:13", to |-> "demo:14",
       ev |-> Plain("stdout", <<"Script: ", "demo_output.py">>)],
      [at |-> "demo:14", to |-> "demo:15", ev |-> DemoPidLine(pid)],
      [at |-> "demo:15", to |-> "demo:18", ev |-> Plain("stdout", <<"">>)],
      [at |-> "demo:18", to |-> "demo:19",
       ev |-> Plain("stdout", <<"Starting demonstration...">>)],
      [at |-> "demo:27", to |-> "demo:28", ev |-> Plain("stdout", <<"">>)],
      [at |-> "demo:28", to |-> "demo:31",
       ev |-> Plain("stdout", <<"Testing different output types:">>)],
      [at |-> "demo:31", to |-> "demo:32",
       ev |-> Plain("stdout", <<"This goes to stdout">>)],
      [at |-> "demo:32", to |-> "demo:33",
       ev |-> Plain("stderr", <<"This goes to stderr">>)],
      [at |-> "demo:36", to |-> "demo:38",
       ev |-> Plain("stdout", <<"\n", "Generating long output:">>)],
      [at |-> "demo:43", to |-> "demo:44",
       ev |-> Plain("stdout", <<"\n", "U+2713", " Demo completed successfully!">>)],
      [at |-> "demo:44", to |-> "demo:47",
       ev |-> Plain("stdout", <<"Total execution time: ~8 seconds">>)] }

DemoPrint ==
    /\ \E p \in DemoPrints :
        /\ pc = p.at
        /\ PrintTo(p.ev.ch, p.ev)
        /\ pc' = p.to
        /\ i' = IF p.at = "demo:36" THEN 0 ELSE i
    /\ UNCHANGED <<env, t, now, warned, raised, status>>

\* time.sleep(1), then the progress loop starts
DemoSleep ==
    /\ pc = "demo:19"
    /\ Sleep(1000)
    /\ pc' = "demo:23"
    /\ i' = 1
    /\ UNCHANGED <<env, t, warned, raised, status, buf, observed>>

DemoProgress ==
    /\ pc = "demo:23"
    /\ i \in DemoProgressRange
    /\ PrintTo("stdout", DemoProgressLine(i))
    /\ pc' = "demo:24"
    /\ UNCHANGED <<env, t, i, now, warned, raised, status>>

\* sys.stdout.flush()
DemoProgressFlush ==
    /\ pc = "demo:24"
    /\ Flush("stdout")
    /\ pc' = "demo:25"
    /\ UNCHANGED <<env, t, i, now, warned, raised, status>>

\* time.sleep(0.5), then the next iteration
DemoProgressSleep ==
    /\ pc = "demo:25"
    /\ Sleep(500)
    /\ pc' = IF i + 1 \in DemoProgressRange THEN "demo:23" ELSE "demo:27"
    /\ i' = i + 1
    /\ UNCHANGED <<env, t, warned, raised, status, buf, observed>>

\* sys.stderr.flush()
DemoStderrFlush ==
    /\ pc = "demo:33"
    /\ Flush("stderr")
    /\ pc' = "demo:36"
    /\ UNCHANGED <<env, t, i, now, warned, raised, status>>

DemoLorem ==
    /\ pc = "demo:38"
    /\ i \in DemoLineRange
    /\ PrintTo("stdout", DemoLoremLine(i))
    /\ pc' = IF DemoPausesAfter(i) THEN "demo:40"
             ELSE IF i + 1 \in DemoLineRange THEN "demo:38" ELSE "demo:43"
    /\ i' = IF DemoPausesAfter(i) THEN i ELSE i + 1
    /\ UNCHANGED <<env, t, now, warned, raised, status>>

\* time.sleep(0.3), then the next iteration
DemoLoremSleep ==
    /\ pc = "demo:40"
    /\ Sleep(300)
    /\ pc' = IF i + 1 \in DemoLineRange THEN "demo:38" ELSE "demo:43"
    /\ i' = i + 1
    /\ UNCHANGED <<env, t, warned, raised, status, buf, observed>>

\* main() returns and the interpreter ends the process with status 0.
DemoReturn ==
    /\ pc = "demo:47"
    /\ AtExit(Exited(0))
    /\ UNCHANGED <<env, t, i, now, warned, raised, trace>>

DemoBody ==
    {p.at : p \in DemoPrints}
        \cup {"demo:19", "demo:23", "demo:24", "demo:25", "demo:33", "demo:38",
              "demo:40", "demo:47"}

\* The script catches nothing: an exception ends the process.
DemoRaise ==
    /\ pc \in DemoBody
    /\ \E e \in Raisable :
        /\ raised' = Append(raised, RaisedAt(e, pc))
        /\ \E st \in UncaughtStatus(e) : AtExit(st)
    /\ UNCHANGED <<env, t, i, now, warned, trace>>

DemoSteps ==
    \/ DemoPrint \/ DemoSleep \/ DemoProgress \/ DemoProgressFlush
    \/ DemoProgressSleep \/ DemoStderrFlush \/ DemoLorem \/ DemoLoremSleep
    \/ DemoReturn

DemoNext == DemoSteps \/ DemoRaise

(***************************************************************************)
(* test_colors.py                                                          *)
(***************************************************************************)
colors ==
    << <<"Red", "31">>, <<"Green", "32">>, <<"Yellow", "33">>, <<"Blue", "34">>,
       <<"Magenta", "35">>, <<"Cyan", "36">>, <<"White", "37">> >>

bright_colors ==
    << <<"Bright Red", "91">>, <<"Bright Green", "92">>, <<"Bright Yellow", "93">>,
       <<"Bright Blue", "94">>, <<"Bright Magenta", "95">>, <<"Bright Cyan", "96">>,
       <<"Bright White", "97">> >>

log_entries ==
    << <<"INFO", "32", "Application started successfully">>,
       <<"DEBUG", "36", "Loading configuration file">>,
       <<"WARNING", "33", "Configuration file not found, using defaults">>,
       <<"ERROR", "31", "Failed to connect to database">>,
       <<"INFO", "32", "Retrying connection...">>,
       <<"SUCCESS", "92", "Connected to database successfully">> >>

\* print_colored without the closing reset sequence.
PrintColoredNoReset(text, color_code) ==
    Plain("stdout", <<"ESC[", color_code, "m">> \o text)

\* print_colored(text, color_code): print(f"\033[{color_code}m{text}\033[0m")
PrintColored(text, color_code) ==
    Plain("stdout", <<"ESC[", color_code, "m">> \o text \o <<"ESC[0m">>)

ColorsPrints ==
    { [at |-> "colors:11", to |-> "colors:12",
       ev |-> Plain("stdout", <<"Python ANSI Color Test">>)],
      [at |-> "colors:12", to |-> "colors:25",
       ev |-> Plain("stdout", <<"=========================">>)],
      [at |-> "colors:28", to |-> "colors:40",
       ev |-> Plain("stdout", <<"\n", "Bright colors:">>)],
      [at |-> "colors:43", to |-> "colors:54",
       ev |-> Plain("stdout", <<"\n", "Real-time log simulation:">>)],
      [at |-> "colors:58", to |-> "colors:61",
       ev |-> Plain("stdout", <<"\n", "Color test completed!">>)] }

\* A print that is followed by a loop sets the loop's index to its first item.
ColorsPrint ==
    /\ \E p \in ColorsPrints :
        /\ pc = p.at
        /\ PrintTo("stdout", p.ev)
        /\ pc' = p.to
        /\ i' = IF p.to \in {"colors:25", "colors:40", "colors:54"} THEN 1 ELSE i
    /\ UNCHANGED <<env, t, now, warned, raised, status>>

\* for name, code in colors: print_colored(f"{name} text", code)
ColorsStandard ==
    /\ pc = "colors:25"
    /\ i \in 1 .. Len(colors)
    /\ PrintTo("stdout", PrintColored(<<colors[i][1], " text">>, colors[i][2]))
    /\ pc' = "colors:26"
    /\ UNCHANGED <<env, t, i, now, warned, raised, status>>

ColorsStandardSleep ==
    /\ pc = "colors:26"
    /\ Sleep(500)
    /\ pc' = IF i < Len(colors) THEN "colors:25" ELSE "colors:28"
    /\ i' = i + 1
    /\ UNCHANGED <<env, t, warned, raised, status, buf, observed>>

\* for name, code in bright_colors: print_colored(f"{name} text", code)
ColorsBright ==
    /\ pc = "colors:40"
    /\ i \in 1 .. Len(bright_colors)
    /\ PrintTo("stdout",
             PrintColored(<<bright_colors[i][1], " text">>, bright_colors[i][2]))
    /\ pc' = "colors:41"
    /\ UNCHANGED <<env, t, i, now, warned, raised, status>>

ColorsBrightSleep ==
    /\ pc = "colors:41"
    /\ Sleep(500)
    /\ pc' = IF i < Len(bright_colors) THEN "colors:40" ELSE "colors:43"
    /\ i' = i + 1
    /\ UNCHANGED <<env, t, warned, raised, status, buf, observed>>

\* for level, color, message in log_entries: print_colored(f"[{level}]", color)
ColorsLogLevel ==
    /\ pc = "colors:54"
    /\ i \in 1 .. Len(log_entries)
    /\ PrintTo("stdout",
             PrintColored(<<"[", log_entries[i][1], "]">>, log_entries[i][2]))
    /\ pc' = "colors:55"
    /\ UNCHANGED <<env, t, i, now, warned, raised, status>>

\* print(f" {message}")
ColorsLogMessage ==
    /\ pc = "colors:55"
    /\ PrintTo("stdout", Plain("stdout", <<" ", log_entries[i][3]>>))
    /\ pc' = "colors:56"
    /\ UNCHANGED <<env, t, i, now, warned, raised, status>>

ColorsLogSleep ==
    /\ pc = "colors:56"
    /\ Sleep(1000)
    /\ pc' = IF i < Len(log_entries) THEN "colors:54" ELSE "colors:58"
    /\ i' = i + 1
    /\ UNCHANGED <<env, t, warned, raised, status, buf, observed>>

\* main() returns and the interpreter ends the process with status 0.
ColorsReturn ==
    /\ pc = "colors:61"
    /\ AtExit(Exited(0))
    /\ UNCHANGED <<env, t, i, now, warned, raised, trace>>

ColorsBody ==
    {p.at : p \in ColorsPrints}
        \cup {"colors:25", "colors:26", "colors:40", "colors:41", "colors:54",
              "colors:55", "colors:56", "colors:61"}

\* The script catches nothing: an exception ends the process.
ColorsRaise ==
    /\ pc \in ColorsBody
    /\ \E e \in Raisable :
        /\ raised' = Append(raised, RaisedAt(e, pc))
        /\ \E st \in UncaughtStatus(e) : AtExit(st)
    /\ UNCHANGED <<env, t, i, now, warned, trace>>

ColorsSteps ==
    \/ ColorsPrint \/ ColorsStandard \/ ColorsStandardSleep
    \/ ColorsBright \/ ColorsBrightSleep
    \/ ColorsLogLevel \/ ColorsLogMessage \/ ColorsLogSleep \/ ColorsReturn

ColorsNext == ColorsSteps \/ ColorsRaise

(***************************************************************************)
(* Process start, and running a script a second time.                      *)
(***************************************************************************)
\* The statement each script starts at.
Entry(s) ==
    CASE s = "task" -> "task:46"
      [] s = "demo" -> "demo:12"
      [] s = "colors" -> "colors:11"

\* Only the demo output generator reads its process id (line 14); for the
\* other two one process id stands for all.
PidsFor(s) == IF s = "demo" THEN Pids ELSE {4711}

\* A "Minor issue" line of the task simulator.
IsMinor(e) ==
    /\ e.k = "print"
    /\ e.lvl = "WARNING"
    /\ Len(e.toks) = 4
    /\ e.toks[1] = "Minor issue in "

\* What the spec calls identical for the task simulator: the output with the
\* timestamps blanked and the randomized warning lines left out.  The other
\* two scripts are compared byte for byte.
Canon(s, out) ==
    IF s = "task"
      THEN LET kept == SelectSeq(out, LAMBDA e : ~IsMinor(e))
           IN  [j \in 1 .. Len(kept) |-> [kept[j] EXCEPT !.ts = 0]]
      ELSE out

\* The lines written to a stream, in order.
Output(tr, ch) == SelectSeq(tr, LAMBDA e : e.k = "print" /\ e.ch = ch)

Start(s, pids, modes) ==
    /\ script = s
    /\ pc = Entry(s)
    /\ t = 0
    /\ i = 0
    /\ now = 0
    /\ warned = 0
    /\ raised = <<>>
    /\ status = Running
    /\ pid \in pids
    /\ mode \in modes
    /\ buf = [ch \in {"stdout", "stderr"} |-> <<>>]
    /\ observed = <<>>
    /\ trace = <<>>
    /\ run = 1
    /\ prev = [ch \in {"stdout", "stderr"} |-> <<>>]

\* The same script is started again, in a new process, after a run that
\* ended with status 0; the first run's output is kept for comparison.
Rerun ==
    /\ pc = "exit"
    /\ status = Exited(0)
    /\ run = 1
    /\ run' = 2
    /\ prev' = [ch \in {"stdout", "stderr"} |-> Canon(script, Output(trace, ch))]
    /\ pc' = Entry(script)
    /\ pid' \in PidsFor(script)
    /\ t' = 0
    /\ i' = 0
    /\ warned' = 0
    /\ raised' = <<>>
    /\ status' = Running
    /\ observed' = <<>>
    /\ trace' = <<>>
    /\ UNCHANGED <<script, now, mode, buf>>

InitTask == Start("task", PidsFor("task"), StdoutModes)
InitDemo == Start("demo", PidsFor("demo"), AllModes)
InitColors == Start("colors", PidsFor("colors"), AllModes)

\* Any of the three scripts, started on a terminal (both streams
\* line-buffered): what is compared between two runs is what was written,
\* which no buffering changes.
InitRerun ==
    \E s \in {"task", "demo", "colors"} :
        Start(s, PidsFor(s), {[ch \in {"stdout", "stderr"} |-> "line"]})

\* The demo output generator or the color probe.
InitScripts == InitDemo \/ InitColors

ScriptsNext == DemoNext \/ ColorsNext

RerunNext == TaskSteps \/ DemoSteps \/ ColorsSteps \/ Rerun

\* One run of the task simulator, with interrupts and faults.
SpecTask == InitTask /\ [][TaskNext]_vars

\* One run of the task simulator that nothing interrupts.
SpecTaskRun == InitTask /\ [][TaskSteps]_vars

\* One run of the demo output generator.
SpecDemo == InitDemo /\ [][DemoNext]_vars

\* One run of the color probe.
SpecColors == InitColors /\ [][ColorsNext]_vars

\* One run of the demo output generator or of the color probe.  The process
\* is the only thread of control and every sleep returns, so a statement that
\* can run does run.
SpecScripts == InitScripts /\ [][ScriptsNext]_vars /\ WF_vars(ScriptsNext)

\* Any script run to completion twice, uninterrupted.
SpecRerun == InitRerun /\ [][RerunNext]_vars

(***************************************************************************)
(* Reading the trace.                                                      *)
(***************************************************************************)
\* The positions of the trace whose event satisfies P.
Pos(tr, P(_)) == {k \in 1 .. Len(tr) : P(tr[k])}

IsStarting(e, name) == e.k = "print" /\ e.toks = <<"Starting ", name>>
IsCompleted(e, name) == e.k = "print" /\ e.toks = <<"Completed ", name>>
IsProgress(e, name) == e.k = "print" /\ e.toks = <<name, " progress: ", "%">>
IsSleep(e) == e.k = "sleep"

\* The one line each except clause of the task simulator logs.
IsInterruptedLine(e) ==
    e.k = "print" /\ e.lvl = "WARNING" /\ e.toks = <<"Script interrupted by user">>
IsErrorLine(e) ==
    e.k = "print" /\ e.lvl = "ERROR" /\ Len(e.toks) = 2
        /\ e.toks[1] = "Unexpected error: "

\* A line that belongs to a task or to the summary.
IsTaskLine(e) ==
    /\ e.k = "print"
    /\ \/ IsMinor(e)
       \/ \E tk \in 1 .. Len(tasks) :
            \/ IsStarting(e, tasks[tk].name)
            \/ IsCompleted(e, tasks[tk].name)
            \/ IsProgress(e, tasks[tk].name)
       \/ e.toks \in {<<"All tasks completed successfully">>,
                      <<"Summary: 3 tasks executed, 0 errors">>}

\* The statements of simulate_work's progress loop (lines 30-39).
ProgressLoop == {"task:32", "task:35", "task:38", "task:39"}

(***************************************************************************)
(* The task simulator.                                                     *)
(***************************************************************************)
\* C1: whatever point of main() an interrupt or another exception is raised
\* at, the process ends with an exit code in {0, 1, 130}: 0 exactly when no
\* exception was raised (all three tasks completed), 130 exactly when the run
\* was ended by an interrupt, 1 exactly when it was ended by another
\* exception; in the latter two cases exactly one handler line was printed, a
\* WARNING for the interrupt, an ERROR carrying the exception's text otherwise.
C1_ExitTaxonomy ==
    pc = "exit" =>
        LET handlerLines ==
                SelectSeq(trace, LAMBDA e : IsInterruptedLine(e) \/ IsErrorLine(e))
            first == raised[1]
        IN  /\ status.kind = "exited"
            /\ status.code \in {0, 1, 130}
            /\ status.code = 0 <=> raised = <<>>
            /\ raised = <<>> =>
                 /\ \A tk \in 1 .. Len(tasks) :
                      Pos(trace, LAMBDA e : IsCompleted(e, tasks[tk].name)) # {}
                 /\ handlerLines = <<>>
            /\ raised # <<>> =>
                 /\ status.code = 130 <=> first.type = "KeyboardInterrupt"
                 /\ status.code = 1 <=> first.type = "Exception"
                 /\ Len(handlerLines) = 1
                 /\ first.type = "KeyboardInterrupt" =>
                      IsInterruptedLine(handlerLines[1])
                 /\ first.type = "Exception" =>
                      /\ IsErrorLine(handlerLines[1])
                      /\ handlerLines[1].toks[2] = first.text

\* C2: when an interrupt arrives inside a task's progress loop, the run ends
\* with exit code 130, exactly one WARNING line "Script interrupted by user"
\* is printed, and no line of any task is printed after it.
C2_InterruptInLoop ==
    (raised # <<>> /\ raised[1].type = "KeyboardInterrupt"
        /\ raised[1].at \in ProgressLoop) =>
        /\ \A k \in Pos(trace, IsInterruptedLine) :
             \A j \in k + 1 .. Len(trace) : ~IsTaskLine(trace[j])
        /\ pc = "exit" =>
             /\ status = Exited(130)
             /\ Cardinality(Pos(trace, IsInterruptedLine)) = 1

\* C3: in an uninterrupted run, for each of the three tasks in list order, the
\* progress lines between the task's "Starting" line and its "Completed" line
\* carry exactly 0.0, 10.0, ..., 100.0; each of the first ten is followed by a
\* sleep of duration/10 and the 100.0 line by none; and no task's "Starting"
\* line comes before the previous task's "Completed" line.
C3_ProgressSequence ==
    /\ \A tk \in 2 .. Len(tasks) :
         \A k \in Pos(trace, LAMBDA e : IsStarting(e, tasks[tk].name)) :
            \E j \in 1 .. k - 1 : IsCompleted(trace[j], tasks[tk - 1].name)
    /\ status = Exited(0) =>
         \A tk \in 1 .. Len(tasks) :
            LET name == tasks[tk].name
                S == Pos(trace, LAMBDA e : IsStarting(e, name))
                C == Pos(trace, LAMBDA e : IsCompleted(e, name))
                P == Pos(trace, LAMBDA e : IsProgress(e, name))
            IN  /\ Cardinality(S) = 1
                /\ Cardinality(C) = 1
                /\ LET s == CHOOSE k \in S : TRUE
                       c == CHOOSE k \in C : TRUE
                       lines == SelectSeq(SubSeq(trace, s, c),
                                          LAMBDA e : IsProgress(e, name))
                   IN  /\ s < c
                       /\ \A k \in P : s < k /\ k < c
                       /\ [j \in 1 .. Len(lines) |-> lines[j].n1]
                            = [j \in 1 .. 11 |-> (j - 1) * 100]
                       /\ \A k \in P :
                            IF trace[k].n1 < 1000
                              THEN /\ trace[k + 1] = FlushEv("stdout")
                                   /\ trace[k + 2] = SleepEv(tasks[tk].duration * 100)
                              ELSE \A j \in k .. c : ~IsSleep(trace[j])
                       /\ Cardinality({k \in s .. c : IsSleep(trace[k])}) = 10

\* C3's case: a run that ended with status 0 and printed warnings on the way.
C3_Witness ==
    /\ pc = "exit"
    /\ status = Exited(0)
    /\ warned = 2
    /\ Pos(trace, LAMBDA e : IsProgress(e, "Report Generation") /\ e.n1 = 1000) # {}

\* C4: every "Minor issue" line names the task whose progress loop is running
\* and a step in 1..10; it stands between that task's progress line for
\* step-1 and its progress line for step, at most once per step, and never
\* after the 100.0% line.
C4_WarningPlacement ==
    \A k \in Pos(trace, IsMinor) :
        LET name == trace[k].toks[2]
            step == trace[k].n1
            starts == {j \in 1 .. k :
                         \E tk \in 1 .. Len(tasks) : IsStarting(trace[j], tasks[tk].name)}
        IN  /\ step \in 1 .. 10
            \* the task started last is the one named, and it has not completed
            /\ starts # {}
            /\ IsStarting(trace[CHOOSE m \in starts : \A j \in starts : j <= m], name)
            /\ \A j \in 1 .. k : ~IsCompleted(trace[j], name)
            \* the line before it is this task's progress line of step-1
            /\ k > 3
            /\ IsSleep(trace[k - 1])
            /\ trace[k - 2] = FlushEv("stdout")
            /\ IsProgress(trace[k - 3], name)
            /\ trace[k - 3].n1 = (step - 1) * 100
            /\ trace[k - 3].n1 < 1000
            \* the line after it is this task's progress line of step
            /\ trace[k + 1] = FlushEv("stdout")
            /\ Len(trace) >= k + 2 =>
                 /\ IsProgress(trace[k + 2], name)
                 /\ trace[k + 2].n1 = step * 100
            \* at most once per step
            /\ \A j \in Pos(trace, IsMinor) :
                 (trace[j].toks[2] = name /\ trace[j].n1 = step) => j = k

\* C4's case: two warnings in one task, the later one followed by the
\* progress line of its step.
C4_Witness ==
    \E k, j \in Pos(trace, IsMinor) :
        /\ j < k
        /\ trace[j].toks[2] = trace[k].toks[2]
        /\ Len(trace) >= k + 2

(***************************************************************************)
(* The demo output generator.                                              *)
(***************************************************************************)
IsStdoutLine(e) == e.k = "print" /\ e.toks = <<"This goes to stdout">>
IsStderrLine(e) == e.k = "print" /\ e.toks = <<"This goes to stderr">>
IsDemoProgress(e) == e.k = "print" /\ e.toks = <<"Progress: ", "/10 (", "%)">>
IsLorem(e) ==
    e.k = "print" /\ Len(e.toks) = 2 /\ e.toks[1] = "Line "
        /\ e.toks[2] = ": Lorem ipsum dolor sit amet, consectetur adipiscing elit."

\* C5: the stdout line and the stderr line are each flushed before the next
\* statement runs, so the reader of both streams has the stdout line once a
\* later statement has run, receives it no later than the stderr line, and
\* receives it before any "Line N" line.
C5_EachWriteFlushed ==
    /\ \A k \in Pos(trace, IsStdoutLine) :
         Len(trace) > k => Pos(observed, IsStdoutLine) # {}
    /\ \A k \in Pos(trace, IsStderrLine) :
         Len(trace) > k => Pos(observed, IsStderrLine) # {}
    /\ \A k \in Pos(observed, IsStderrLine) :
         \E j \in 1 .. k - 1 : IsStdoutLine(observed[j])
    /\ \A k \in Pos(observed, IsLorem) :
         \E j \in 1 .. k - 1 : IsStdoutLine(observed[j])

\* C7: the output holds exactly ten "Progress: i/10 (p%)" lines, for
\* i = 1..10 in order with p = i*10; each is followed by a flush of stdout,
\* which hands it to the reader, and then by a delay of half a second,
\* before anything else is written.
C7_ProgressLines ==
    LET lines == SelectSeq(trace, IsDemoProgress)
    IN  /\ Len(lines) <= 10
        /\ \A j \in 1 .. Len(lines) : lines[j].n1 = j /\ lines[j].n2 = j * 10
        /\ status = Exited(0) => Len(lines) = 10
        /\ \A k \in Pos(trace, IsDemoProgress) :
             /\ Len(trace) > k =>
                  /\ trace[k + 1] = FlushEv("stdout")
                  /\ \E j \in 1 .. Len(observed) : observed[j] = trace[k]
             /\ Len(trace) > k + 1 => trace[k + 2] = SleepEv(500)

\* C7's case: a complete run, all ten lines flushed and received.
C7_Witness ==
    /\ status = Exited(0)
    /\ mode["stdout"] = "block"
    /\ Cardinality(Pos(observed, IsDemoProgress)) = 10

\* C8: exactly twenty "Line N" lines are printed, N rising from 1 to 20, and
\* a delay follows exactly the lines numbered 5, 10, 15 and 20.
C8_NumberedLines ==
    LET lines == SelectSeq(trace, IsLorem)
    IN  /\ Len(lines) <= 20
        /\ \A j \in 1 .. Len(lines) : lines[j].n1 = j
        /\ status = Exited(0) =>
             /\ Len(lines) = 20
             /\ {trace[k].n1 : k \in {q \in Pos(trace, IsLorem) : IsSleep(trace[q + 1])}}
                  = {5, 10, 15, 20}
        /\ \A k \in Pos(trace, IsLorem) :
             Len(trace) > k =>
                (IsSleep(trace[k + 1]) <=> trace[k].n1 \in {5, 10, 15, 20})

\* C8's case: a complete run.
C8_Witness ==
    /\ status = Exited(0)
    /\ Pos(trace, LAMBDA e : IsLorem(e) /\ e.n1 = 20) # {}

(***************************************************************************)
(* The color probe.                                                        *)
(***************************************************************************)
\* A line that holds an escape sequence.
HasEscape(e) ==
    e.k = "print" /\ \E j \in 1 .. Len(e.toks) : e.toks[j] \in {"ESC[", "ESC[0m"}

\* ESC[<code>m<text>ESC[0m: one color sequence, text, one reset at the end.
IsColoredSegment(e) ==
    /\ Len(e.toks) >= 5
    /\ e.toks[1] = "ESC["
    /\ e.toks[2] \in {"31", "32", "33", "34", "35", "36", "37",
                      "91", "92", "93", "94", "95", "96", "97"}
    /\ e.toks[3] = "m"
    /\ e.toks[Len(e.toks)] = "ESC[0m"
    /\ \A j \in 4 .. Len(e.toks) - 1 : e.toks[j] \notin {"ESC[", "ESC[0m"}

\* One of the fourteen color lines: "<name> text", colored.
IsColorLine(e) == HasEscape(e) /\ e.toks[Len(e.toks) - 1] = " text"

\* C9: exactly fourteen individually colored lines are produced, the codes
\* 31..37 in order and then 91..97 in order, and every colored segment (these
\* and the six log-level labels) is ESC[<code>m<text>ESC[0m: it ends with a
\* reset before anything uncolored is written.
C9_ColoredSegments ==
    LET colored == SelectSeq(trace, IsColorLine)
        codes == <<"31", "32", "33", "34", "35", "36", "37",
                   "91", "92", "93", "94", "95", "96", "97">>
    IN  /\ Len(colored) <= 14
        /\ \A j \in 1 .. Len(colored) : colored[j].toks[2] = codes[j]
        /\ \A k \in Pos(trace, HasEscape) : IsColoredSegment(trace[k])
        /\ status = Exited(0) =>
             /\ Len(colored) = 14
             /\ Cardinality(Pos(trace, HasEscape)) = 20

\* C9's case: a complete run of the color probe.
C9_Witness ==
    /\ status = Exited(0)
    /\ Cardinality(Pos(trace, IsColorLine)) = 14

(***************************************************************************)
(* Both scripts without error handling.                                    *)
(***************************************************************************)
\* C10 as stated: every execution of the demo output generator or the color
\* probe, interrupted or not, ends with exit status 0.
C10_AlwaysExitZero == pc = "exit" => status = Exited(0)

\* C10, amended: every execution of either script ends, with exit status 0
\* exactly when no interrupt and no fault struck it.
C10_ExitZeroUnlessRaised ==
    /\ [](pc = "exit" => (status = Exited(0) <=> raised = <<>>))
    /\ <>(pc = "exit")

\* C10's case: a run that an interrupt ended during a delay.
C10_Witness ==
    /\ pc = "exit"
    /\ raised # <<>>
    /\ raised[1].type = "KeyboardInterrupt"
    /\ raised[1].at \in {"demo:25", "colors:26"}
    /\ status # Exited(0)

(***************************************************************************)
(* Running a script twice.                                                 *)
(***************************************************************************)
\* The output of this run on both streams, as it is compared.
Canonical == [ch \in {"stdout", "stderr"} |-> Canon(script, Output(trace, ch))]

\* A line with the process id blanked.
MaskPid(e) == IF e.toks = <<"PID: ">> THEN [e EXCEPT !.n1 = 0] ELSE e

MaskPids(out) ==
    [ch \in {"stdout", "stderr"} |-> [j \in 1 .. Len(out[ch]) |-> MaskPid(out[ch][j])]]

\* C6 as stated: a second run of the demo output generator or of the color
\* probe writes byte for byte what the first wrote, on both streams, and a
\* second run of the task simulator writes the same but for the timestamps
\* and the randomized warning lines.
C6_RerunIdentical ==
    (run = 2 /\ pc = "exit") => Canonical = prev

\* C6, amended: as stated, except that the "PID:" line of the demo output
\* generator carries the process id, which differs from run to run.
C6_RerunIdenticalButPid ==
    (run = 2 /\ pc = "exit") => MaskPids(Canonical) = MaskPids(prev)

\* C6's case: a second run of the demo output generator, in a process with
\* another id, has ended.
C6_Witness ==
    /\ run = 2
    /\ pc = "exit"
    /\ script = "demo"
    /\ Canonical # prev

====
